---- MODULE Spec2Model ----
(***************************************************************************)
(* A model of ice-kube's log streaming engine (src/src/logs.rs) and of the *)
(* older copy of it kept in src/src/main.rs.                               *)
(*                                                                         *)
(* Strings are sequences of bytes (Rust's String is its UTF-8 bytes), so   *)
(* that str::contains, String::from_utf8 and Regex::is_match are computed  *)
(* and not assumed.  One step of a tailer is one statement that writes to  *)
(* the shared stdout (one execute! or println!) or one await on the        *)
(* cluster; the tokio tasks spawned by follow_logs run in parallel, so the *)
(* steps of different tailers interleave freely.                           *)
(***************************************************************************)
EXTENDS Integers, Sequences, FiniteSets, TLC

\* Total number of log lines the cluster delivers in one run, over all streams.
MaxLines == 2

(***************************************************************************)
(* Byte strings used by the program and by the inputs.                     *)
(***************************************************************************)
\* "ERROR", "error", "Error": the literals of logs.rs:221-223
S_ERROR == <<69, 82, 82, 79, 82>>
S_error == <<101, 114, 114, 111, 114>>
S_Error == <<69, 114, 114, 111, 114>>
\* "boot", "(", "w", "db", "x": operator inputs (patterns)
S_boot == <<98, 111, 111, 116>>
S_paren == <<40>>
S_w == <<119>>
S_db == <<100, 98>>
S_x == <<120>>
Empty == <<>>

\* The pods of the namespace, in listing order: "w1", "w2", "db".
PodList == << <<119, 49>>, <<119, 50>>, S_db >>
Pods == 1..Len(PodList)

\* Name patterns the operator may give (-p): "w", "db", "x", "(".
Patterns == {S_w, S_db, S_x, S_paren}

\* Option<String> values of the highlight flag: None, Some(""), Some("boot"), Some("(").
None == [some |-> FALSE, val |-> Empty]
Some(s) == [some |-> TRUE, val |-> s]
HighlightOpts == {None, Some(Empty), Some(S_boot), Some(S_paren)}

\* COLORS (logs.rs:31-70): the palette, as <<r, g, b>>.
COLORS ==
    << <<0, 255, 0>>, <<128, 128, 0>>, <<0, 255, 255>>, <<255, 192, 203>>,
       <<245, 120, 250>>, <<221, 160, 221>>, <<154, 205, 50>>, <<230, 230, 120>> >>

\* What rng.gen_range(0.0, COLORS.len() as f32) may return: an f32 of the half-open
\* range [0, len), kept in hundredths.
SampleRange == 0..(100 * Len(COLORS) - 1)

\* One sample inside every unit interval of the range, and the two ends of it.
PaletteSweep == {100 * i + 50 : i \in 0..(Len(COLORS) - 1)} \cup {0, 100 * Len(COLORS) - 1}

\* The command lines explored, each with the samples the thread's generator will
\* hand out: every highlight option in both modes against the patterns that
\* select one pod, no pod, or do not compile; the one-pod pattern with a sample for
\* every palette entry; and the pattern that selects two pods with the highlight
\* patterns "boot" and "(" in both modes, with two samples that give the same
\* color or, for "boot" in normal mode, also the first and the last color.
Inputs ==
    {[pattern |-> p, highlight |-> h, filter |-> f, rng |-> <<350, 399>>] :
        p \in Patterns \ {S_w}, h \in HighlightOpts, f \in BOOLEAN}
    \cup
    {[pattern |-> S_db, highlight |-> None, filter |-> FALSE, rng |-> <<x, 0>>] :
        x \in PaletteSweep}
    \cup
    {[pattern |-> S_w, highlight |-> h, filter |-> f, rng |-> <<350, 399>>] :
        h \in {Some(S_boot), Some(S_paren)}, f \in BOOLEAN}
    \cup
    {[pattern |-> S_w, highlight |-> Some(S_boot), filter |-> FALSE, rng |-> <<0, 799>>]}

\* The log lines of the cluster: "ERRor", "error boot", "boot", "Error", "ERROR" and
\* the invalid byte 0xFF.  A stream starts at one of them and goes on with the
\* ones that follow it, cyclically, until it closes or fails.
LineSeq ==
    << <<69, 82, 82, 111, 114>>,
       S_error \o <<32>> \o S_boot,
       S_boot,
       S_Error,
       S_ERROR,
       <<255>> >>

\* Where in LineSeq the log of each pod may start: w1 at one of the first three
\* lines, w2 at one of the last three, db anywhere.
LogStarts == << {1, 2, 3}, {4, 5, 6}, {1, 2, 3, 4, 5, 6} >>

(***************************************************************************)
(* Pure functions.                                                         *)
(***************************************************************************)
\* str::contains(&str): byte substring search.
Contains(s, sub) ==
    \E i \in 0..(Len(s) - Len(sub)) : SubSeq(s, i + 1, i + Len(sub)) = sub

\* OptionEx::to_str
to_str(o) == IF o.some THEN o.val ELSE Empty

\* Regex::new(p).is_ok(), for patterns made of literal characters and "(":
\* a group that is opened and never closed does not compile.
RegexCompiles(p) ==
    Cardinality({i \in 1..Len(p) : p[i] = 40}) = Cardinality({i \in 1..Len(p) : p[i] = 41})

\* A match that has to cover the whole text.
is_match_Anchored(p, s) == s = p

\* Regex::is_match for a compiled pattern of literal characters: an unanchored
\* search, which the empty pattern satisfies at offset 0 of every text.
is_match(p, s) == Contains(s, p)

IsCont(b) == b >= 128 /\ b <= 191

\* A decoding that accepts every byte sequence, as from_utf8_lossy would.
Utf8Valid_Lossy(b) == TRUE

\* String::from_utf8(bytes).is_ok(): core::str::from_utf8's validation.
RECURSIVE Utf8Valid(_)
Utf8Valid(b) ==
    IF Len(b) = 0 THEN TRUE
    ELSE LET b0 == b[1]
             n == Len(b)
             at(i) == IF i <= n THEN b[i] ELSE 0
             rest(k) == SubSeq(b, k + 1, n)
         IN  IF b0 < 128 THEN Utf8Valid(rest(1))
             ELSE IF b0 >= 194 /\ b0 <= 223
                  THEN IsCont(at(2)) /\ Utf8Valid(rest(2))
             ELSE IF b0 >= 224 /\ b0 <= 239
                  THEN /\ IsCont(at(2)) /\ IsCont(at(3))
                       /\ (b0 = 224 => at(2) >= 160)
                       /\ (b0 = 237 => at(2) <= 159)
                       /\ Utf8Valid(rest(3))
             ELSE IF b0 >= 240 /\ b0 <= 244
                  THEN /\ IsCont(at(2)) /\ IsCont(at(3)) /\ IsCont(at(4))
                       /\ (b0 = 240 => at(2) >= 144)
                       /\ (b0 = 244 => at(2) <= 143)
                       /\ Utf8Valid(rest(4))
             ELSE FALSE

\* The error test of logs.rs:221-223.
HasError(s) == Contains(s, S_ERROR) \/ Contains(s, S_error) \/ Contains(s, S_Error)

\* Variants of the decision, each with one slip.
\* The highlight test comes before the error test.
Category_HighlightFirst(s, highlight, filter) ==
    IF filter
    THEN IF highlight # Empty /\ is_match(highlight, s) THEN "Highlighted" ELSE "Suppressed"
    ELSE IF highlight # Empty /\ is_match(highlight, s) THEN "Highlighted"
         ELSE IF HasError(s) THEN "Error"
         ELSE "Plain"

\* Filter mode lets error lines through.
Category_FilterShowsErrors(s, highlight, filter) ==
    IF filter
    THEN IF highlight # Empty /\ is_match(highlight, s) THEN "Highlighted"
         ELSE IF HasError(s) THEN "Error"
         ELSE "Suppressed"
    ELSE IF HasError(s) THEN "Error"
         ELSE IF highlight # Empty /\ is_match(highlight, s) THEN "Highlighted"
         ELSE "Plain"

\* The pattern is not tested for emptiness.
Category_NoEmptyTest(s, highlight, filter) ==
    IF filter
    THEN IF is_match(highlight, s) THEN "Highlighted" ELSE "Suppressed"
    ELSE IF HasError(s) THEN "Error"
         ELSE IF is_match(highlight, s) THEN "Highlighted"
         ELSE "Plain"

\* The decision of logs.rs:203-244 for one decoded line: which branch writes it.
Category(s, highlight, filter) ==
    IF filter
    THEN IF highlight # Empty /\ is_match(highlight, s) THEN "Highlighted" ELSE "Suppressed"
    ELSE IF HasError(s) THEN "Error"
         ELSE IF highlight # Empty /\ is_match(highlight, s) THEN "Highlighted"
         ELSE "Plain"

\* A plain branch that prints the text in the color the label left set.
StyleOf_PlainInColor(cat) ==
    CASE cat = "Error" -> "Red+Bold"
      [] cat = "Highlighted" -> "Yellow+Bold"
      [] OTHER -> "Color"

\* The style commands the branch puts in front of Print(line_str).
StyleOf(cat) ==
    CASE cat = "Error" -> "Red+Bold"
      [] cat = "Highlighted" -> "Yellow+Bold"
      [] OTHER -> "Reset"

\* A conversion to the index that rounds to the nearest entry of the palette.
get_color_Rounding(x) ==
    LET index == (x + 50) \div 100
    IN  COLORS[IF index >= Len(COLORS) THEN Len(COLORS) ELSE index + 1]

\* get_color (logs.rs:72-80) for the sample x: `as usize` drops the fraction, and
\* the palette is indexed from 0.
get_color(x) == COLORS[(x \div 100) + 1]

(***************************************************************************)
(* State.                                                                  *)
(***************************************************************************)
VARIABLES
    pattern,        \* -p: the pod name pattern given to follow_logs
    highlightOpt,   \* LogsOpts.highlight: Option<String>
    filterOpt,      \* LogsOpts.filter
    fl,             \* where follow_logs is: collect, spawn, join, done, error, panic
    pods,           \* collect_pods' result: indexes into PodList, in listing order
    spawned,        \* how many of pods the spawn loop has gone through
    pc,             \* per pod: where its stream_logs task is
    cfg,            \* per pod: the highlight string and filter flag it was spawned with
    pulled,         \* per pod: the raw lines try_next has returned so far, in order
    terminal,       \* what stdout has received: a sequence of write records
    listing,        \* how collect_pods' calls to the cluster went: pending, noconfig, failed, ok
    result,         \* per pod: what its task returned (Ok, Err:..) or how it panicked; none before
    rng,            \* the samples thread_rng hands out in this run, in order
    input,          \* select_pod's input: the line read from stdin
    ui,             \* where load_ui is: off, loop, done, error, panic
    overflow_checks,    \* the build: TRUE if integer overflow panics, FALSE if it wraps
    raw_mode,       \* the terminal is in raw mode
    cluster,        \* how many pods of PodList the namespace holds right now
    pod_list,       \* load_ui's pod_list: the names listed at start
    active_action_item, \* load_ui's view: Home, or Describe(idx)
    selected,       \* pod_table_state.selected(): Some(n) from line 95 on, kept as n
    describe_pod_text,  \* the length in bytes of load_ui's describe_pod_text
    scroll_offset,  \* load_ui's scroll_offset, a u16
    event,          \* the last event load_ui took from the channel
    keys            \* how many events load_ui has handled

\* The variables of load_ui (ui.rs).
uiVars == <<ui, overflow_checks, raw_mode, cluster, pod_list, active_action_item, selected,
            describe_pod_text, scroll_offset, event, keys>>

\* The variables of the log commands (logs.rs, main.rs).
logVars == <<pattern, highlightOpt, filterOpt, fl, pods, spawned, pc, cfg, pulled, terminal,
             listing, result, rng, input>>

vars == <<logVars, uiVars>>

\* load_ui is not part of the run.
UiOff ==
    /\ ui = "off"
    /\ overflow_checks = FALSE
    /\ raw_mode = FALSE
    /\ cluster = Len(PodList)
    /\ pod_list = <<>>
    /\ active_action_item = [view |-> "Home", idx |-> 0]
    /\ selected = 0
    /\ describe_pod_text = 0
    /\ scroll_offset = 0
    /\ event = "none"
    /\ keys = 0

NoCfg == [name |-> Empty, color |-> <<>>, highlight |-> Empty, filter |-> FALSE]

\* A task that has returned (Ok or Err) or panicked; its JoinHandle is ready.
Finished == {"Ended", "Failed", "Panicked"}

\* Lines delivered so far by the cluster, over all streams.
RECURSIVE SumLen(_, _)
SumLen(f, S) ==
    IF S = {} THEN 0
    ELSE LET x == CHOOSE y \in S : TRUE IN Len(f[x]) + SumLen(f, S \ {x})
Delivered == SumLen(pulled, Pods)

\* What try_next may return next on pod p's stream, when it returns a line.
Incoming(p) ==
    IF pulled[p] = <<>>
    THEN {LineSeq[i] : i \in LogStarts[p]}
    ELSE LET last == pulled[p][Len(pulled[p])]
             k == CHOOSE i \in 1..Len(LineSeq) : LineSeq[i] = last
         IN  {LineSeq[(k % Len(LineSeq)) + 1]}

\* One statement's output on stdout.
Rec(p, line, part, style, text) ==
    [pod |-> p, line |-> line, part |-> part, style |-> style, text |-> text]

\* A sink that puts the newest write first.
Emit_Prepend(term, rec) == <<rec>> \o term

\* stdout receives the bytes of a write after everything it received before.
Emit(term, rec) == Append(term, rec)

Init ==
    /\ \E in \in Inputs :
          /\ pattern = in.pattern
          /\ highlightOpt = in.highlight
          /\ filterOpt = in.filter
          /\ rng = in.rng
    /\ input = <<>>
    /\ UiOff
    /\ fl = "collect"
    /\ listing = "pending"
    /\ pods = <<>>
    /\ spawned = 0
    /\ pc = [p \in Pods |-> "idle"]
    /\ cfg = [p \in Pods |-> NoCfg]
    /\ pulled = [p \in Pods |-> <<>>]
    /\ terminal = <<>>
    /\ result = [p \in Pods |-> "none"]

(***************************************************************************)
(* follow_logs (logs.rs:82-100) and collect_pods (logs.rs:148-174).        *)
(***************************************************************************)
\* A selection that falls back to the whole listing when nothing matches.
Matching_AllIfNone(pat) ==
    LET Idx == [i \in Pods |-> i]
        Test(i) == is_match(pat, PodList[i])
    IN  IF SelectSeq(Idx, Test) = <<>> THEN Idx ELSE SelectSeq(Idx, Test)

\* The names of the listing that the pattern matches, as indexes, in order.
Matching(pat) ==
    LET Idx == [i \in Pods |-> i]
        Test(i) == is_match(pat, PodList[i])
    IN  SelectSeq(Idx, Test)

\* The Vec<String> that collect_pods returns for a selection (165-172).
Names(ps) == [i \in 1..Len(ps) |-> PodList[ps[i]]]

\* collect_pods fails before it asks for anything: Config::infer and
\* Config::from_kubeconfig both fail, and `?` returns the error (149-152).
CollectFails ==
    /\ fl = "collect"
    /\ fl' = "error"
    /\ listing' = "noconfig"
    /\ UNCHANGED <<result, uiVars, rng, input, pattern, highlightOpt, filterOpt, pods, spawned, pc, cfg, pulled, terminal>>

\* Regex::new(pattern).unwrap() (162) panics on a pattern that does not compile;
\* the listing is never asked for.
CollectPanics ==
    /\ fl = "collect"
    /\ ~RegexCompiles(pattern)
    /\ fl' = "panic"
    /\ UNCHANGED <<listing, result, uiVars, rng, input, pattern, highlightOpt, filterOpt, pods, spawned, pc, cfg, pulled, terminal>>

\* A failed listing that is taken for an empty one.
CollectListFails_AsEmpty ==
    /\ fl = "collect"
    /\ RegexCompiles(pattern)
    /\ listing' = "failed"
    /\ fl' = "spawn"
    /\ terminal' = Emit(terminal, Rec(0, 0, "pods", "none", <<>>))
    /\ UNCHANGED <<result, uiVars, rng, input, pattern, highlightOpt, filterOpt, pods, spawned, pc, cfg, pulled>>

\* pods.list(&lp).await? (163): the listing fails and `?` returns the error out of
\* collect_pods, and the `?` of 83 out of follow_logs.
CollectListFails ==
    /\ fl = "collect"
    /\ RegexCompiles(pattern)
    /\ listing' = "failed"
    /\ fl' = "error"
    /\ UNCHANGED <<result, uiVars, rng, input, pattern, highlightOpt, filterOpt, pods, spawned, pc, cfg, pulled, terminal>>

\* collect_pods returns the matching names; follow_logs prints them (84), and
\* println! panics if the write fails.
CollectOk ==
    /\ fl = "collect"
    /\ RegexCompiles(pattern)
    /\ listing' = "ok"
    /\ pods' = Matching(pattern)
    /\ \/ /\ terminal' = Emit(terminal, Rec(0, 0, "pods", "none", Names(Matching(pattern))))
          /\ fl' = "spawn"
       \/ /\ terminal' = terminal
          /\ fl' = "panic"
    /\ UNCHANGED <<result, uiVars, rng, input, pattern, highlightOpt, filterOpt, spawned, pc, cfg, pulled>>

\* A loop that awaits each task before it spawns the next one.
Spawn_Sequential ==
    /\ fl = "spawn"
    /\ spawned < Len(pods)
    /\ spawned > 0 => pc[pods[spawned]] \in Finished
    /\ LET p == pods[spawned + 1]
       IN  /\ pc' = [pc EXCEPT ![p] = "connecting"]
           /\ cfg' = [cfg EXCEPT ![p] =
                 [name |-> PodList[p], color |-> get_color(rng[spawned + 1]),
                  highlight |-> to_str(highlightOpt), filter |-> filterOpt]]
    /\ spawned' = spawned + 1
    /\ UNCHANGED <<listing, result, uiVars, rng, input, pattern, highlightOpt, filterOpt, fl, pods, pulled, terminal>>

\* One turn of the loop of 86-95: get_color, then task::spawn(stream_logs(..)) for
\* the next name.
Spawn ==
    /\ fl = "spawn"
    /\ spawned < Len(pods)
    /\ LET p == pods[spawned + 1]
       IN  /\ pc' = [pc EXCEPT ![p] = "connecting"]
           /\ cfg' = [cfg EXCEPT ![p] =
                 [name |-> PodList[p], color |-> get_color(rng[spawned + 1]),
                  highlight |-> to_str(highlightOpt), filter |-> filterOpt]]
    /\ spawned' = spawned + 1
    /\ UNCHANGED <<listing, result, uiVars, rng, input, pattern, highlightOpt, filterOpt, fl, pods, pulled, terminal>>

\* The loop is over: follow_logs awaits join_all(tasks) (97).
StartJoin ==
    /\ fl = "spawn"
    /\ spawned = Len(pods)
    /\ fl' = "join"
    /\ UNCHANGED <<listing, result, uiVars, rng, input, pattern, highlightOpt, filterOpt, pods, spawned, pc, cfg, pulled, terminal>>

\* A join that returns on the first task that fails, as try_join_all would.
JoinReady_FirstFailure ==
    \/ \A i \in 1..Len(pods) : pc[pods[i]] \in Finished
    \/ \E i \in 1..Len(pods) : pc[pods[i]] \in {"Failed", "Panicked"}

\* A join that returns as soon as any one task is over.
JoinReady_Any ==
    \/ pods = <<>>
    \/ \E i \in 1..Len(pods) : pc[pods[i]] \in Finished

\* A join that is only ready when every task returned Ok.
JoinReady_AllOk == \A i \in 1..Len(pods) : pc[pods[i]] = "Ended"

\* join_all is ready when every JoinHandle is.
JoinReady == \A i \in 1..Len(pods) : pc[pods[i]] \in Finished

\* A follow_logs that returns the first tailer failure it finds among the results.
Join_Propagate ==
    /\ fl = "join"
    /\ JoinReady
    /\ fl' = IF \E i \in 1..Len(pods) : pc[pods[i]] \in {"Failed", "Panicked"}
             THEN "error" ELSE "done"
    /\ pc' = [p \in Pods |-> IF pc[p] \in Finished \cup {"idle"} THEN pc[p] ELSE "Cancelled"]
    /\ UNCHANGED <<listing, result, uiVars, rng, input, pattern, highlightOpt, filterOpt, pods, spawned, cfg, pulled, terminal>>

\* join_all returns, follow_logs returns Ok(()) (99) and the process ends: the
\* runtime drops whatever task is still running.
Join ==
    /\ fl = "join"
    /\ JoinReady
    /\ fl' = "done"
    /\ pc' = [p \in Pods |-> IF pc[p] \in Finished \cup {"idle"} THEN pc[p] ELSE "Cancelled"]
    /\ UNCHANGED <<listing, result, uiVars, rng, input, pattern, highlightOpt, filterOpt, pods, spawned, cfg, pulled, terminal>>

(***************************************************************************)
(* stream_logs (logs.rs:176-248), one task per pod.                        *)
(***************************************************************************)
\* The line the task is rendering: the last one it pulled.
CurLine(p) == pulled[p][Len(pulled[p])]

\* execute!(stdout(), ..)?: the write reaches stdout, or it fails and `?` returns
\* Err out of stream_logs.
Execute(p, rec, next) ==
    \/ /\ terminal' = Emit(terminal, rec)
       /\ pc' = [pc EXCEPT ![p] = next]
       /\ result' = result
    \/ /\ terminal' = terminal
       /\ pc' = [pc EXCEPT ![p] = "Failed"]
       /\ result' = [result EXCEPT ![p] = "Err:write"]

\* A line terminator that is left out.
Println_Skip(p, rec, next) ==
    /\ terminal' = terminal
    /\ pc' = [pc EXCEPT ![p] = next]
    /\ result' = result

\* println!(): the write reaches stdout, or it fails and println! panics.
Println(p, rec, next) ==
    \/ /\ terminal' = Emit(terminal, rec)
       /\ pc' = [pc EXCEPT ![p] = next]
       /\ result' = result
    \/ /\ terminal' = terminal
       /\ pc' = [pc EXCEPT ![p] = "Panicked"]
       /\ result' = [result EXCEPT ![p] = "panic:write"]

\* 184-200: the configuration is read and the log stream is opened, or `?` returns
\* Err; then Regex::new(&highlight).unwrap(); then execute!(stdout(), ResetColor)?.
Connect(p) ==
    /\ pc[p] = "connecting"
    /\ \/ /\ pc' = [pc EXCEPT ![p] = "Failed"]
          /\ result' = [result EXCEPT ![p] = "Err:connect"]
          /\ terminal' = terminal
       \/ /\ ~RegexCompiles(cfg[p].highlight)
          /\ pc' = [pc EXCEPT ![p] = "Panicked"]
          /\ result' = [result EXCEPT ![p] = "panic:regex"]
          /\ terminal' = terminal
       \/ /\ RegexCompiles(cfg[p].highlight)
          /\ Execute(p, Rec(p, 0, "reset", "Reset", Empty), "next")
    /\ UNCHANGED <<listing, uiVars, rng, input, pattern, highlightOpt, filterOpt, fl, pods, spawned, cfg, pulled>>

\* A tailer that opens the stream again when it closes.
PullEnd_Reconnect(p) ==
    /\ pc[p] = "next"
    /\ pc' = [pc EXCEPT ![p] = "connecting"]
    /\ UNCHANGED <<listing, result, uiVars, rng, input, pattern, highlightOpt, filterOpt, fl, pods, spawned, cfg, pulled, terminal>>

\* 201: try_next().await? finds the stream closed.
PullEnd(p) ==
    /\ pc[p] = "next"
    /\ pc' = [pc EXCEPT ![p] = "Ended"]
    /\ result' = [result EXCEPT ![p] = "Ok"]
    /\ UNCHANGED <<listing, uiVars, rng, input, pattern, highlightOpt, filterOpt, fl, pods, spawned, cfg, pulled, terminal>>

\* 201: try_next().await? returns the stream's error.
PullError(p) ==
    /\ pc[p] = "next"
    /\ pc' = [pc EXCEPT ![p] = "Failed"]
    /\ result' = [result EXCEPT ![p] = "Err:stream"]
    /\ UNCHANGED <<listing, uiVars, rng, input, pattern, highlightOpt, filterOpt, fl, pods, spawned, cfg, pulled, terminal>>

\* 201-202: a line arrives and String::from_utf8 rejects it: `?` returns Err.
PullInvalid(p) ==
    /\ pc[p] = "next"
    /\ Delivered < MaxLines
    /\ \E l \in Incoming(p) :
          /\ ~Utf8Valid(l)
          /\ pulled' = [pulled EXCEPT ![p] = Append(@, l)]
    /\ pc' = [pc EXCEPT ![p] = "Failed"]
    /\ result' = [result EXCEPT ![p] = "Err:utf8"]
    /\ UNCHANGED <<listing, uiVars, rng, input, pattern, highlightOpt, filterOpt, fl, pods, spawned, cfg, terminal>>

\* 201-204: a line arrives in filter mode and is decoded; it is left unwritten
\* unless the pattern is there and matches.
PullFilter(p) ==
    /\ pc[p] = "next"
    /\ cfg[p].filter
    /\ Delivered < MaxLines
    /\ \E l \in Incoming(p) :
          /\ Utf8Valid(l)
          /\ pulled' = [pulled EXCEPT ![p] = Append(@, l)]
          /\ pc' = [pc EXCEPT ![p] =
                IF Category(l, cfg[p].highlight, cfg[p].filter) = "Suppressed"
                THEN "next" ELSE "text"]
    /\ UNCHANGED <<listing, result, uiVars, rng, input, pattern, highlightOpt, filterOpt, fl, pods, spawned, cfg, terminal>>

\* 201-203, 215-220: a line arrives in normal mode and is decoded, then
\* execute!(stdout(), SetForegroundColor(c), Print(&pod_name), Print(" "))?
PullLabel(p) ==
    /\ pc[p] = "next"
    /\ ~cfg[p].filter
    /\ Delivered < MaxLines
    /\ \E l \in Incoming(p) :
          /\ Utf8Valid(l)
          /\ pulled' = [pulled EXCEPT ![p] = Append(@, l)]
          /\ Execute(p, Rec(p, Len(pulled[p]) + 1, "label", "Color", cfg[p].name), "text")
    /\ UNCHANGED <<listing, uiVars, rng, input, pattern, highlightOpt, filterOpt, fl, pods, spawned, cfg>>

\* 205-211, 225-231, 233-239, 241: the execute! that prints line_str in its style.
WriteText(p) ==
    /\ pc[p] = "text"
    /\ Execute(p, Rec(p, Len(pulled[p]), "text",
                      StyleOf(Category(CurLine(p), cfg[p].highlight, cfg[p].filter)),
                      CurLine(p)), "nl")
    /\ UNCHANGED <<listing, uiVars, rng, input, pattern, highlightOpt, filterOpt, fl, pods, spawned, cfg, pulled>>

\* 212, 243: println!()
WriteNewline(p) ==
    /\ pc[p] = "nl"
    /\ Println(p, Rec(p, Len(pulled[p]), "nl", "none", Empty), "next")
    /\ UNCHANGED <<listing, uiVars, rng, input, pattern, highlightOpt, filterOpt, fl, pods, spawned, cfg, pulled>>

\* The color and bold state one write leaves the terminal in: the label's
\* SetForegroundColor(c) stays set (215-220); every branch that prints the text ends
\* with ResetColor or starts with it (205-211, 225-231, 233-239, 241), as does the
\* write of 200; println! and the other writes carry no style command.
StyleAfter(rec, before) ==
    CASE rec.part = "label" -> "Color"
      [] rec.part \in {"text", "reset"} -> "Default"
      [] OTHER -> before

\* The color and bold state of the terminal after it received term.
RECURSIVE TermStyle(_)
TermStyle(term) ==
    IF term = <<>> THEN "Default"
    ELSE StyleAfter(term[Len(term)], TermStyle(SubSeq(term, 1, Len(term) - 1)))

Tailer(p) ==
    \/ Connect(p)
    \/ PullEnd(p)
    \/ PullError(p)
    \/ PullInvalid(p)
    \/ PullFilter(p)
    \/ PullLabel(p)
    \/ WriteText(p)
    \/ WriteNewline(p)

Next ==
    \/ CollectFails
    \/ CollectPanics
    \/ CollectListFails
    \/ CollectOk
    \/ Spawn
    \/ StartJoin
    \/ Join
    \/ \E p \in Pods : Tailer(p)

Spec == Init /\ [][Next]_vars

\* The runtime keeps running some task that can run (tokio's scheduler does not
\* stop while a task or follow_logs is ready), and a stream delivers finitely
\* many lines before it closes or fails.
Fairness == WF_vars(Next)

FairSpec == Spec /\ Fairness

(***************************************************************************)
(* main.rs: `logs --pod <name>` (main.rs:121-125) with main.rs's own       *)
(* stream_logs (main.rs:479-516), which has no highlight and no filter.    *)
(***************************************************************************)
InitMain ==
    /\ pattern = Empty
    /\ highlightOpt = None
    /\ filterOpt = FALSE
    /\ rng = <<>>
    /\ input = <<>>
    /\ UiOff
    /\ fl = "pod"
    /\ listing = "pending"
    /\ \E p \in Pods :
          /\ pods = <<p>>
          /\ pc = [q \in Pods |-> IF q = p THEN "connecting" ELSE "idle"]
    /\ spawned = 1
    /\ cfg = [p \in Pods |-> NoCfg]
    /\ pulled = [p \in Pods |-> <<>>]
    /\ terminal = <<>>
    /\ result = [p \in Pods |-> "none"]

\* The error test of main.rs:499.
MainHasError(s) == Contains(s, S_ERROR) \/ Contains(s, S_error)

\* print!/println! of main.rs: the write reaches stdout, or the macro panics.
MainPrint(p, rec, next) ==
    \/ /\ terminal' = Emit(terminal, rec)
       /\ pc' = [pc EXCEPT ![p] = next]
       /\ result' = result
    \/ /\ terminal' = terminal
       /\ pc' = [pc EXCEPT ![p] = "Panicked"]
       /\ result' = [result EXCEPT ![p] = "panic:write"]

\* main.rs:485-496: Config::infer and log_stream, or Err; then println!(Fg(Reset)).
MainConnect(p) ==
    /\ fl = "pod"
    /\ pc[p] = "connecting"
    /\ \/ /\ pc' = [pc EXCEPT ![p] = "Failed"]
          /\ result' = [result EXCEPT ![p] = "Err:connect"]
          /\ terminal' = terminal
       \/ MainPrint(p, Rec(p, 0, "reset", "Reset", Empty), "next")
    /\ UNCHANGED <<listing, uiVars, rng, input, pattern, highlightOpt, filterOpt, fl, pods, spawned, cfg, pulled>>

\* main.rs:497: the stream is closed.
MainPullEnd(p) ==
    /\ fl = "pod"
    /\ pc[p] = "next"
    /\ pc' = [pc EXCEPT ![p] = "Ended"]
    /\ result' = [result EXCEPT ![p] = "Ok"]
    /\ UNCHANGED <<listing, uiVars, rng, input, pattern, highlightOpt, filterOpt, fl, pods, spawned, cfg, pulled, terminal>>

\* main.rs:497: the stream fails.
MainPullError(p) ==
    /\ fl = "pod"
    /\ pc[p] = "next"
    /\ pc' = [pc EXCEPT ![p] = "Failed"]
    /\ result' = [result EXCEPT ![p] = "Err:stream"]
    /\ UNCHANGED <<listing, uiVars, rng, input, pattern, highlightOpt, filterOpt, fl, pods, spawned, cfg, pulled, terminal>>

\* main.rs:497-498: a line arrives and is not UTF-8.
MainPullInvalid(p) ==
    /\ fl = "pod"
    /\ pc[p] = "next"
    /\ Delivered < MaxLines
    /\ \E l \in Incoming(p) :
          /\ ~Utf8Valid(l)
          /\ pulled' = [pulled EXCEPT ![p] = Append(@, l)]
    /\ pc' = [pc EXCEPT ![p] = "Failed"]
    /\ result' = [result EXCEPT ![p] = "Err:utf8"]
    /\ UNCHANGED <<listing, uiVars, rng, input, pattern, highlightOpt, filterOpt, fl, pods, spawned, cfg, terminal>>

\* main.rs:497-500, 509: a line arrives, then print!("{}{}  ", color::Fg(c), pod_name).
MainPullLabel(p) ==
    /\ fl = "pod"
    /\ pc[p] = "next"
    /\ Delivered < MaxLines
    /\ \E l \in Incoming(p) :
          /\ Utf8Valid(l)
          /\ pulled' = [pulled EXCEPT ![p] = Append(@, l)]
    /\ MainPrint(p, Rec(p, Len(pulled[p]) + 1, "label", "Color", PodList[p]), "text")
    /\ UNCHANGED <<listing, uiVars, rng, input, pattern, highlightOpt, filterOpt, fl, pods, spawned, cfg>>

\* main.rs:501-507, 511: println! of the line, red and bold or after Fg(Reset).
MainWriteText(p) ==
    /\ fl = "pod"
    /\ pc[p] = "text"
    /\ MainPrint(p, Rec(p, Len(pulled[p]), "text",
                       IF MainHasError(CurLine(p)) THEN "Red+Bold" ELSE "Reset",
                       CurLine(p)), "next")
    /\ UNCHANGED <<listing, uiVars, rng, input, pattern, highlightOpt, filterOpt, fl, pods, spawned, cfg, pulled>>

\* main.rs:124, 140: stream_logs(..).await? and the end of main.
MainExit ==
    /\ fl = "pod"
    /\ pc[pods[1]] \in Finished
    /\ fl' = (CASE pc[pods[1]] = "Ended" -> "done"
                [] pc[pods[1]] = "Failed" -> "error"
                [] OTHER -> "panic")
    /\ UNCHANGED <<listing, result, uiVars, rng, input, pattern, highlightOpt, filterOpt, pods, spawned, pc, cfg, pulled, terminal>>

NextMain ==
    \/ MainExit
    \/ \E p \in Pods :
          \/ MainConnect(p)
          \/ MainPullEnd(p)
          \/ MainPullError(p)
          \/ MainPullInvalid(p)
          \/ MainPullLabel(p)
          \/ MainWriteText(p)

SpecMain == InitMain /\ [][NextMain]_vars

(***************************************************************************)
(* select_pod (logs.rs:102-132) with list_pods (logs.rs:134-146): the pod  *)
(* is chosen by its number on stdin and tailed by the same stream_logs.    *)
(***************************************************************************)
\* What the operator may type: "1", " 0 ", "+2", "7", "x", "-1", each with its
\* line end, and the bare line end.
StdinLines ==
    { <<49, 10>>, <<32, 48, 32, 10>>, <<43, 50, 10>>, <<55, 10>>, <<120, 10>>,
      <<45, 49, 10>>, <<10>> }

\* char::is_whitespace, for the ASCII range.
IsSpace(b) == b \in {9, 10, 11, 12, 13, 32}

\* str::trim: whitespace is taken off both ends.
RECURSIVE Trim(_)
Trim(s) ==
    IF s = <<>> THEN s
    ELSE IF IsSpace(Head(s)) THEN Trim(Tail(s))
    ELSE IF IsSpace(s[Len(s)]) THEN Trim(SubSeq(s, 1, Len(s) - 1))
    ELSE s

\* The value of a string of decimal digits.
RECURSIVE DigitsValue(_)
DigitsValue(d) ==
    IF d = <<>> THEN 0
    ELSE 10 * DigitsValue(SubSeq(d, 1, Len(d) - 1)) + (d[Len(d)] - 48)

\* A parse that takes whatever is not a number for 0.
ParseUsize_Lenient(s) ==
    LET d == IF s # <<>> /\ Head(s) = 43 THEN Tail(s) ELSE s
    IN  IF d # <<>> /\ \A i \in 1..Len(d) : d[i] >= 48 /\ d[i] <= 57
        THEN [ok |-> TRUE, val |-> DigitsValue(d)]
        ELSE [ok |-> TRUE, val |-> 0]

\* str::parse::<usize>: an optional "+", then one decimal digit or more and nothing
\* else; anything else is a ParseIntError.
ParseUsize(s) ==
    LET d == IF s # <<>> /\ Head(s) = 43 THEN Tail(s) ELSE s
    IN  IF d # <<>> /\ \A i \in 1..Len(d) : d[i] >= 48 /\ d[i] <= 57
        THEN [ok |-> TRUE, val |-> DigitsValue(d)]
        ELSE [ok |-> FALSE, val |-> 0]

InitSelect ==
    /\ pattern = Empty
    /\ highlightOpt \in HighlightOpts
    /\ filterOpt \in BOOLEAN
    /\ rng \in {<<x>> : x \in {0, 350, 799}}
    /\ input = <<>>
    /\ UiOff
    /\ fl = "list"
    /\ listing = "pending"
    /\ pods = <<>>
    /\ spawned = 0
    /\ pc = [p \in Pods |-> "idle"]
    /\ cfg = [p \in Pods |-> NoCfg]
    /\ pulled = [p \in Pods |-> <<>>]
    /\ terminal = <<>>
    /\ result = [p \in Pods |-> "none"]

\* 104, util.rs:19-30: get_pods fails (no configuration, or the listing fails) and
\* `?` returns the error out of list_pods and select_pod.
SelectListFails ==
    /\ fl = "list"
    /\ fl' = "error"
    /\ listing' = "failed"
    /\ UNCHANGED <<result, uiVars, rng, input, pattern, highlightOpt, filterOpt, pods, spawned, pc, cfg, pulled, terminal>>

\* 138-143: list_pods prints the listing, one println! per pod, numbered from 0;
\* a println! whose write fails panics after the ones before it were written.
SelectList ==
    /\ fl = "list"
    /\ listing' = "ok"
    /\ \E k \in 0..Len(PodList) :
          /\ terminal' = terminal \o [i \in 1..k |-> Rec(0, i - 1, "list", "none", PodList[i])]
          /\ fl' = IF k = Len(PodList) THEN "prompt" ELSE "panic"
    /\ UNCHANGED <<result, uiVars, rng, input, pattern, highlightOpt, filterOpt, pods, spawned, pc, cfg, pulled>>

\* 106-107: print!("Enter Pod number: ") panics if its write fails; then
\* io::stdout().flush()? returns the error if the flush fails.
SelectPrompt ==
    /\ fl = "prompt"
    /\ \/ /\ terminal' = Emit(terminal, Rec(0, 0, "prompt", "none", Empty))
          /\ fl' \in {"read", "error"}
       \/ /\ terminal' = terminal
          /\ fl' = "panic"
    /\ UNCHANGED <<listing, result, uiVars, rng, input, pattern, highlightOpt, filterOpt, pods, spawned, pc, cfg, pulled>>

\* 108, 128: read_line fails; select_pod prints the error and returns Ok(()).
SelectReadFails ==
    /\ fl = "read"
    /\ \/ /\ terminal' = Emit(terminal, Rec(0, 0, "error", "none", Empty))
          /\ fl' = "done"
       \/ /\ terminal' = terminal
          /\ fl' = "panic"
    /\ UNCHANGED <<listing, result, uiVars, rng, input, pattern, highlightOpt, filterOpt, pods, spawned, pc, cfg, pulled>>

\* 108-125: a line is read; input.trim().parse::<usize>()? returns the error, or
\* pods.get(&index) finds nothing and select_pod returns Ok(()), or the pod's name
\* is printed (println! panics if the write fails) and stream_logs is called with
\* the options' highlight string and filter flag.
SelectRead ==
    /\ fl = "read"
    /\ \E in \in StdinLines :
          /\ input' = in
          /\ LET index == ParseUsize(Trim(in))
             IN  IF ~index.ok
                 THEN /\ fl' = "error"
                      /\ UNCHANGED <<pods, spawned, pc, cfg, terminal>>
                 ELSE IF index.val + 1 \notin Pods
                 THEN /\ fl' = "done"
                      /\ UNCHANGED <<pods, spawned, pc, cfg, terminal>>
                 ELSE LET p == index.val + 1
                      IN  \/ /\ terminal' = Emit(terminal, Rec(0, 0, "name", "none", PodList[p]))
                             /\ fl' = "stream"
                             /\ pods' = <<p>>
                             /\ spawned' = 1
                             /\ pc' = [pc EXCEPT ![p] = "connecting"]
                             /\ cfg' = [cfg EXCEPT ![p] =
                                   [name |-> PodList[p], color |-> get_color(rng[1]),
                                    highlight |-> to_str(highlightOpt), filter |-> filterOpt]]
                          \/ /\ fl' = "panic"
                             /\ UNCHANGED <<pods, spawned, pc, cfg, terminal>>
    /\ UNCHANGED <<listing, result, uiVars, rng, pattern, highlightOpt, filterOpt, pulled>>

\* 117-125, 131: stream_logs(..).await? is over: its error is returned, its panic
\* unwinds through select_pod, and after Ok select_pod returns Ok(()).
SelectReturn ==
    /\ fl = "stream"
    /\ pc[pods[1]] \in Finished
    /\ fl' = (CASE pc[pods[1]] = "Ended" -> "done"
                [] pc[pods[1]] = "Failed" -> "error"
                [] OTHER -> "panic")
    /\ UNCHANGED <<listing, result, uiVars, rng, input, pattern, highlightOpt, filterOpt, pods, spawned, pc, cfg, pulled, terminal>>

NextSelect ==
    \/ SelectListFails
    \/ SelectList
    \/ SelectPrompt
    \/ SelectReadFails
    \/ SelectRead
    \/ SelectReturn
    \/ \E p \in Pods : Tailer(p)

SpecSelect == InitSelect /\ [][NextSelect]_vars

\* Both ways into stream_logs of logs.rs: follow_logs and select_pod.
InitLogs == Init \/ InitSelect

NextLogs == Next \/ NextSelect

SpecLogs == InitLogs /\ [][NextLogs]_vars

(***************************************************************************)
(* load_ui (ui.rs:60-254): the pod browser.                                *)
(***************************************************************************)
\* How many events a run of load_ui handles at most.
MaxKeys == 3

\* u16 holds the values below 2^16.
U16 == 2^16

\* The lengths in bytes describe_pod's text may have: 0 for a pod without spec
\* (util.rs:46-50), short ones, and ones that do not fit a u16.
DescribeLens == {0, 2, 3, U16, U16 + 2}

\* usize values are kept as integers near 0, and the ones at the top of the range
\* as negative numbers: -1 stands for usize::MAX, -2 for usize::MAX - 1.
\* a >= b for two usize values:
UGe(a, b) == IF (a < 0) = (b < 0) THEN a >= b ELSE a < 0

\* Vec::get(i) finds an element.
InList(i, list) == i >= 0 /\ i < Len(list)

\* No log command is part of the run (main.rs:135-137 calls load_ui).
LogsOff ==
    /\ pattern = Empty
    /\ highlightOpt = None
    /\ filterOpt = FALSE
    /\ fl = "off"
    /\ pods = <<>>
    /\ spawned = 0
    /\ pc = [p \in Pods |-> "idle"]
    /\ cfg = [p \in Pods |-> NoCfg]
    /\ pulled = [p \in Pods |-> <<>>]
    /\ terminal = <<>>
    /\ listing = "pending"
    /\ result = [p \in Pods |-> "none"]
    /\ rng = <<>>
    /\ input = <<>>

InitUI ==
    /\ LogsOff
    /\ ui = "start"
    /\ overflow_checks \in BOOLEAN
    /\ raw_mode = FALSE
    /\ cluster \in 0..Len(PodList)
    /\ pod_list = <<>>
    /\ active_action_item = [view |-> "Home", idx |-> 0]
    /\ selected = 0
    /\ describe_pod_text = 0
    /\ scroll_offset = 0
    /\ event = "none"
    /\ keys = 0

\* 61-100: enable_raw_mode().expect(..) panics if it fails; after it, Terminal::new,
\* clear, refresh_pod_list and get_context each return their error with `?`, and
\* raw mode stays on; otherwise the loop is entered with row 0 selected and the
\* pods the namespace holds now as pod_list.
UiLoad ==
    /\ ui = "start"
    /\ \/ /\ ui' = "panic"
          /\ UNCHANGED <<raw_mode, pod_list>>
       \/ /\ ui' = "error"
          /\ raw_mode' = TRUE
          /\ UNCHANGED pod_list
       \/ /\ ui' = "top"
          /\ raw_mode' = TRUE
          /\ pod_list' = SubSeq(PodList, 1, cluster)
    /\ UNCHANGED <<logVars, overflow_checks, cluster, active_action_item, selected,
                   describe_pod_text, scroll_offset, event, keys>>

\* Pods are created or deleted in the namespace while the browser runs.
ClusterChanges ==
    /\ ui \in {"top", "recv"}
    /\ cluster' \in (0..Len(PodList)) \ {cluster}
    /\ UNCHANGED <<logVars, ui, overflow_checks, raw_mode, pod_list, active_action_item,
                   selected, describe_pod_text, scroll_offset, event, keys>>

\* The lengths describe_pod (util.rs:37-51) may return for the idx-th pod of
\* pod_list: none if the pod is no longer there (pods.get fails).
DescribeOk(idx) == IF idx < cluster THEN DescribeLens ELSE {}

\* 103-195: the top of the loop. In the Describe view an empty text is fetched
\* again for a pod pod_list still has (describe_pod(..).await? may fail); then
\* terminal.draw(..)? draws the view or returns its error.
UiDraw ==
    /\ ui = "top"
    /\ LET idx == active_action_item.idx
           refetch == /\ describe_pod_text = 0
                      /\ active_action_item.view = "Describe"
                      /\ InList(idx, pod_list)
       IN  \/ /\ refetch
              /\ \E len \in DescribeOk(idx) : describe_pod_text' = len
              /\ ui' = "recv"
           \/ /\ ~refetch
              /\ describe_pod_text' = describe_pod_text
              /\ ui' = "recv"
           \/ /\ describe_pod_text' = describe_pod_text
              /\ ui' = "error"
    /\ UNCHANGED <<logVars, overflow_checks, raw_mode, cluster, pod_list, active_action_item,
                   selected, scroll_offset, event, keys>>

\* 197-198, 246-248: the event is a tick or a key without a handler.
KeyOther ==
    /\ ui = "recv"
    /\ keys < MaxKeys
    /\ event' \in {"Tick", "x"}
    /\ keys' = keys + 1
    /\ ui' = "top"
    /\ UNCHANGED <<logVars, overflow_checks, raw_mode, cluster, pod_list, active_action_item,
                   selected, describe_pod_text, scroll_offset>>

\* 200-204: 'q': disable_raw_mode()? and terminal.show_cursor()? return their
\* error; otherwise break, and load_ui returns Ok(()) (253).
KeyQ ==
    /\ ui = "recv"
    /\ keys < MaxKeys
    /\ event' = "q"
    /\ keys' = keys + 1
    /\ \/ /\ raw_mode' = raw_mode
          /\ ui' = "error"
       \/ /\ raw_mode' = FALSE
          /\ ui' \in {"error", "done"}
    /\ UNCHANGED <<logVars, overflow_checks, cluster, pod_list, active_action_item,
                   selected, describe_pod_text, scroll_offset>>

\* A 'd' that goes back to the Home view when pressed in the Describe view.
KeyD_Toggle ==
    /\ ui = "recv"
    /\ keys < MaxKeys
    /\ event' = "d"
    /\ keys' = keys + 1
    /\ IF active_action_item.view = "Describe"
       THEN /\ active_action_item' = [view |-> "Home", idx |-> 0]
            /\ UNCHANGED describe_pod_text
            /\ ui' = "top"
       ELSE IF InList(selected, pod_list)
       THEN \/ /\ \E len \in DescribeOk(selected) : describe_pod_text' = len
               /\ active_action_item' = [view |-> "Describe", idx |-> selected]
               /\ ui' = "top"
            \/ /\ UNCHANGED <<describe_pod_text, active_action_item>>
               /\ ui' = "error"
       ELSE /\ UNCHANGED <<describe_pod_text, active_action_item>>
            /\ ui' = "top"
    /\ UNCHANGED <<logVars, overflow_checks, raw_mode, cluster, pod_list, selected, scroll_offset>>

\* 205-212: 'd', in either view: if the selected row is a pod of pod_list, its
\* description is fetched (describe_pod(..).await? may fail) and the view becomes
\* Describe(selected); otherwise nothing changes.
KeyD ==
    /\ ui = "recv"
    /\ keys < MaxKeys
    /\ event' = "d"
    /\ keys' = keys + 1
    /\ IF InList(selected, pod_list)
       THEN \/ /\ \E len \in DescribeOk(selected) : describe_pod_text' = len
               /\ active_action_item' = [view |-> "Describe", idx |-> selected]
               /\ ui' = "top"
            \/ /\ UNCHANGED <<describe_pod_text, active_action_item>>
               /\ ui' = "error"
       ELSE /\ UNCHANGED <<describe_pod_text, active_action_item>>
            /\ ui' = "top"
    /\ UNCHANGED <<logVars, overflow_checks, raw_mode, cluster, pod_list, selected, scroll_offset>>

\* 213-229: Down or 'j'. Home: pod_list.len() - 1 is a usize subtraction, which
\* for an empty list panics in a build with overflow checks and gives usize::MAX
\* in one without; then row 0 or the next row is selected. Describe:
\* scroll_offset += 1 and describe_pod_text.len() as u16 - 1 are u16 arithmetic
\* with the same two outcomes on overflow, and `as u16` keeps the low 16 bits.
KeyDown ==
    /\ ui = "recv"
    /\ keys < MaxKeys
    /\ event' = "Down"
    /\ keys' = keys + 1
    /\ IF active_action_item.view = "Home"
       THEN /\ scroll_offset' = scroll_offset
            /\ IF Len(pod_list) = 0 /\ overflow_checks
               THEN ui' = "overflow" /\ selected' = selected
               ELSE /\ ui' = "top"
                    /\ selected' = IF UGe(selected, Len(pod_list) - 1) THEN 0 ELSE selected + 1
       ELSE /\ selected' = selected
            /\ LET len16 == describe_pod_text % U16
                   bumped == (scroll_offset + 1) % U16
               IN  IF scroll_offset + 1 >= U16 /\ overflow_checks
                   THEN ui' = "overflow" /\ scroll_offset' = scroll_offset
                   ELSE IF bumped >= len16
                   THEN IF len16 = 0 /\ overflow_checks
                        THEN ui' = "overflow" /\ scroll_offset' = bumped
                        ELSE ui' = "top" /\ scroll_offset' = (len16 - 1) % U16
                   ELSE ui' = "top" /\ scroll_offset' = bumped
    /\ UNCHANGED <<logVars, overflow_checks, raw_mode, cluster, pod_list, active_action_item,
                   describe_pod_text>>

\* 230-245: Up or 'k'. Home: the row before, or from row 0 the row
\* pod_list.len() - 1, the same usize subtraction. Describe: scroll_offset goes
\* down by one unless it is 0.
KeyUp ==
    /\ ui = "recv"
    /\ keys < MaxKeys
    /\ event' = "Up"
    /\ keys' = keys + 1
    /\ IF active_action_item.view = "Home"
       THEN /\ scroll_offset' = scroll_offset
            /\ IF selected # 0
               THEN ui' = "top" /\ selected' = selected - 1
               ELSE IF Len(pod_list) = 0 /\ overflow_checks
               THEN ui' = "overflow" /\ selected' = selected
               ELSE ui' = "top" /\ selected' = Len(pod_list) - 1
       ELSE /\ selected' = selected
            /\ ui' = "top"
            /\ scroll_offset' = IF scroll_offset > 0 THEN scroll_offset - 1 ELSE scroll_offset
    /\ UNCHANGED <<logVars, overflow_checks, raw_mode, cluster, pod_list, active_action_item,
                   describe_pod_text>>

NextUI ==
    \/ UiLoad
    \/ ClusterChanges
    \/ UiDraw
    \/ KeyOther
    \/ KeyQ
    \/ KeyD
    \/ KeyDown
    \/ KeyUp

SpecUI == InitUI /\ [][NextUI]_vars

(***************************************************************************)
(* Properties.                                                             *)
(***************************************************************************)
IsText(r) == r.part = "text"

\* The line texts pod p has had printed, in the order stdout received them.
TextRecs(p) ==
    LET Mine(r) == r.pod = p /\ r.part = "text"
    IN  SelectSeq(terminal, Mine)

\* The positions of stdout that hold a write of pod p for its k-th line.
Writes(p, k, part) ==
    {i \in DOMAIN terminal :
        terminal[i].pod = p /\ terminal[i].line = k /\ terminal[i].part = part}

\* The k-th line of p is one that p's mode lets through.
Shown(p, k) ==
    \/ ~cfg[p].filter
    \/ cfg[p].highlight # Empty /\ Contains(pulled[p][k], cfg[p].highlight)

\* p has gone through everything it does for its k-th line.
Handled(p, k) ==
    k < Len(pulled[p]) \/ (k = Len(pulled[p]) /\ pc[p] \in {"next", "Ended"})

\* C1: the line texts printed for one pod appear on stdout in the order the
\* pod's stream delivered them, whatever the other tailers write in between.
C1_PerPodOrder ==
    \A p \in Pods :
        LET t == TextRecs(p)
        IN  \A i \in 1..Len(t) :
                /\ t[i].line \in 1..Len(pulled[p])
                /\ t[i].text = pulled[p][t[i].line]
                /\ i > 1 => t[i - 1].line < t[i].line

\* Two lines of one pod are on stdout with a write of another tailer between them.
C1_Witness ==
    \E p \in Pods : \E i, j, k \in DOMAIN terminal :
        /\ i < j /\ j < k
        /\ terminal[i].pod = p /\ IsText(terminal[i]) /\ terminal[i].line = 1
        /\ terminal[k].pod = p /\ IsText(terminal[k]) /\ terminal[k].line = 2
        /\ terminal[j].pod \notin {0, p}

\* C2 as stated: every line a tailer has pulled and gone through has exactly one
\* printed text and one line terminator on stdout.
C2_EveryLineOnce ==
    \A p \in Pods : \A k \in 1..Len(pulled[p]) :
        Handled(p, k) =>
            /\ Cardinality(Writes(p, k, "text")) = 1
            /\ Cardinality(Writes(p, k, "nl")) = 1

\* C2 amended: no line is ever printed twice, and the lines of a pod are printed in
\* the order received; a line the tailer has gone through is printed exactly once
\* (text and terminator) if the tailer's mode lets it through, which normal mode
\* does for every line and filter-only mode for the lines matching a non-empty
\* highlight pattern, and not at all otherwise.
C2_ShownLinesOnce ==
    /\ \A p \in Pods : \A k \in 1..Len(pulled[p]) :
          /\ Cardinality(Writes(p, k, "text")) <= 1
          /\ Cardinality(Writes(p, k, "nl")) <= 1
          /\ Handled(p, k) =>
                /\ Cardinality(Writes(p, k, "text")) = (IF Shown(p, k) THEN 1 ELSE 0)
                /\ Cardinality(Writes(p, k, "nl")) = (IF Shown(p, k) THEN 1 ELSE 0)
    /\ \A i, j \in DOMAIN terminal :
          /\ i < j
          /\ IsText(terminal[i]) /\ IsText(terminal[j])
          /\ terminal[i].pod = terminal[j].pod
          => terminal[i].line < terminal[j].line

\* A normal-mode tailer has pulled two lines and printed both, and its stream closed.
C2_Witness ==
    \E p \in Pods :
        /\ ~cfg[p].filter
        /\ pc[p] = "Ended"
        /\ Len(pulled[p]) = 2
        /\ Len(TextRecs(p)) = 2

\* C3: between the first and the last write of one line of one pod, stdout holds
\* no write of another tailer.
C3_InstructionAtomic ==
    \A i, j, k \in DOMAIN terminal :
        /\ i < j /\ j < k
        /\ terminal[i].pod = terminal[k].pod
        /\ terminal[i].line = terminal[k].line
        /\ terminal[i].line >= 1
        => terminal[j].pod = terminal[i].pod

\* Another tailer has failed or panicked.
SiblingFailed(q) == \E p \in Pods \ {q} : pc[p] \in {"Failed", "Panicked"}

\* C4: a tailer whose sibling has failed is not cancelled, and when its own stream
\* closes it has printed every line of that stream that its mode lets through.
C4_FailureIsolated ==
    \A q \in Pods :
        SiblingFailed(q) =>
            /\ pc[q] # "Cancelled"
            /\ pc[q] = "Ended" =>
                  \A k \in 1..Len(pulled[q]) :
                      Cardinality(Writes(q, k, "text")) = (IF Shown(q, k) THEN 1 ELSE 0)

\* One tailer failed before it pulled anything; its sibling went on to print two
\* lines and ended.
C4_Witness ==
    \E p, q \in Pods :
        /\ p # q
        /\ pc[p] = "Failed" /\ pulled[p] = <<>>
        /\ pc[q] = "Ended" /\ Len(TextRecs(q)) = 2

\* C5: once follow_logs is over, no tailer it spawned is still connecting or
\* streaming: each has ended, failed or panicked.
C5_JoinWaitsForAll ==
    fl \in {"done", "error", "panic"} =>
        \A p \in Pods : pc[p] \in Finished \cup {"idle"}

\* follow_logs returned after one tailer failed and the other printed a line and ended.
C5_Witness ==
    /\ fl = "done"
    /\ \E p, q \in Pods :
          /\ pc[p] \in {"Failed", "Panicked"}
          /\ pc[q] = "Ended" /\ Len(TextRecs(q)) >= 1

\* C6: once the pods are selected, follow_logs eventually returns.
C6_Completes == (fl = "spawn") ~> (fl = "done")

\* follow_logs returned although every tailer it spawned failed or panicked.
C6_Witness ==
    /\ fl = "done"
    /\ Len(pods) = 2
    /\ \A i \in 1..Len(pods) : pc[pods[i]] \in {"Failed", "Panicked"}

\* The highlight pattern of p is there and matches s.
HighlightMatches(p, s) == cfg[p].highlight # Empty /\ Contains(s, cfg[p].highlight)

\* The text s contains "ERROR", "error" or "Error".
ErrorText(s) == Contains(s, S_ERROR) \/ Contains(s, S_error) \/ Contains(s, S_Error)

\* C7: in normal mode the style of a printed line is decided in this order: bold
\* red if it contains an error substring, else bold yellow if the highlight pattern
\* is there and matches, else plain.
C7_ErrorBeforeHighlight ==
    \A i \in DOMAIN terminal :
        LET r == terminal[i]
        IN  IsText(r) /\ ~cfg[r.pod].filter =>
                r.style = (IF ErrorText(r.text) THEN "Red+Bold"
                           ELSE IF HighlightMatches(r.pod, r.text) THEN "Yellow+Bold"
                           ELSE "Reset")

\* A line with an error substring that also matches the pattern is on stdout in
\* normal mode.
C7_Witness ==
    \E i \in DOMAIN terminal :
        LET r == terminal[i]
        IN  /\ IsText(r) /\ ~cfg[r.pod].filter
            /\ ErrorText(r.text) /\ HighlightMatches(r.pod, r.text)
            /\ r.style = "Red+Bold"

\* C8: a line printed in normal mode is bold red exactly if it contains "ERROR",
\* "error" or "Error".
C8_ErrorIffSubstring ==
    \A i \in DOMAIN terminal :
        LET r == terminal[i]
        IN  IsText(r) /\ ~cfg[r.pod].filter =>
                (r.style = "Red+Bold" <=> ErrorText(r.text))

\* C9: in filter-only mode a line is printed only if the pattern is there and
\* matches it, then once and bold yellow; any other line leaves nothing on stdout.
C9_FilterOnly ==
    \A p \in Pods : \A k \in 1..Len(pulled[p]) :
        cfg[p].filter =>
            IF Utf8Valid(pulled[p][k]) /\ HighlightMatches(p, pulled[p][k])
            THEN /\ Writes(p, k, "label") = {}
                 /\ Cardinality(Writes(p, k, "text")) <= 1
                 /\ Handled(p, k) /\ pc[p] \in {"next", "Ended"} =>
                        Cardinality(Writes(p, k, "text")) = 1
                 /\ \A i \in Writes(p, k, "text") : terminal[i].style = "Yellow+Bold"
            ELSE \A part \in {"label", "text", "nl"} : Writes(p, k, part) = {}

\* A filter-only tailer printed a matching line and then dropped a line with an
\* error substring.
C9_Witness ==
    \E p \in Pods :
        /\ cfg[p].filter
        /\ pc[p] = "next"
        /\ Len(pulled[p]) = 2
        /\ ErrorText(pulled[p][2]) /\ ~HighlightMatches(p, pulled[p][2])
        /\ Cardinality(Writes(p, 1, "text")) = 1
        /\ Writes(p, 2, "text") = {}

\* The operator gave no highlight pattern, or an empty one.
NoPattern == ~highlightOpt.some \/ highlightOpt.val = Empty

\* C10: without a highlight pattern (absent or empty) nothing is printed bold
\* yellow, and in filter-only mode no line is printed at all.
C10_NoPatternNoHighlight ==
    NoPattern =>
        \A i \in DOMAIN terminal :
            /\ terminal[i].style # "Yellow+Bold"
            /\ filterOpt => terminal[i].part \notin {"label", "text", "nl"}

\* With the pattern absent, the line "boot" is on stdout, plain.
C10_Witness ==
    /\ ~highlightOpt.some
    /\ \E i \in DOMAIN terminal :
          /\ IsText(terminal[i])
          /\ terminal[i].text = S_boot
          /\ terminal[i].style = "Reset"

\* The pattern occurs somewhere in the name: at some offset the name reads as the
\* pattern does.
Occurs(pat, name) ==
    \E off \in 0..Len(name) :
        /\ off + Len(pat) <= Len(name)
        /\ \A j \in 1..Len(pat) : name[off + j] = pat[j]

\* C11: when collect_pods returns, its result is exactly the pods of the listing
\* whose name the pattern occurs in anywhere (a search, not a whole-name match),
\* each once and in listing order.
C11_SelectsExactlyMatching ==
    listing = "ok" =>
        /\ \A i \in 1..Len(pods) : pods[i] \in Pods
        /\ \A i, j \in 1..Len(pods) : i < j => pods[i] < pods[j]
        /\ {pods[i] : i \in 1..Len(pods)} = {q \in Pods : Occurs(pattern, PodList[q])}

\* A pattern that is only a part of two names has selected those two and left out
\* the third.
C11_Witness ==
    /\ listing = "ok"
    /\ Len(pods) = 2
    /\ \A i \in 1..Len(pods) : PodList[pods[i]] # pattern
    /\ \E q \in Pods : \A i \in 1..Len(pods) : pods[i] # q

\* follow_logs has printed the selection it got from collect_pods.
SelectionPrinted == \E i \in DOMAIN terminal : terminal[i].part = "pods"

\* C12: when the pattern occurs in no pod name, the selection is empty, the line
\* follow_logs prints shows the empty list, no tailer is ever spawned, follow_logs
\* has nothing to wait for at either of its steps, and it ends without an error.
C12_EmptySelection ==
    ((\A q \in Pods : ~Occurs(pattern, PodList[q])) /\ SelectionPrinted) =>
        /\ pods = <<>>
        /\ terminal = <<Rec(0, 0, "pods", "none", <<>>)>>
        /\ spawned = 0
        /\ \A q \in Pods : pc[q] = "idle" /\ result[q] = "none"
        /\ fl \in {"spawn", "join", "done"}
        /\ fl = "spawn" => ENABLED StartJoin
        /\ fl = "join" => ENABLED Join

\* follow_logs has returned Ok for a pattern that no pod name has.
C12_Witness ==
    /\ pattern = S_x
    /\ fl = "done"
    /\ pods = <<>>
    /\ SelectionPrinted

\* C13: once the listing call has failed, follow_logs has returned that error:
\* nothing was selected, no tailer was spawned, nothing was written to stdout,
\* and no step of the run is left that could ask for the listing again.
C13_ListingFailureAborts ==
    listing = "failed" =>
        /\ fl = "error"
        /\ pods = <<>>
        /\ spawned = 0
        /\ \A q \in Pods : pc[q] = "idle" /\ result[q] = "none"
        /\ terminal = <<>>
        /\ ~ENABLED Next

\* The listing has failed for a pattern that some pod names would have matched.
C13_Witness ==
    /\ listing = "failed"
    /\ fl = "error"
    /\ \E q \in Pods : Occurs(pattern, PodList[q])

\* C14 as stated: with a highlight pattern that does not compile the run stops at
\* startup: no tailer is ever spawned, no tailer meets the pattern's error in its
\* own task, and follow_logs does not end with success.
C14_BadHighlightFatalAtStartup ==
    ~RegexCompiles(to_str(highlightOpt)) =>
        /\ spawned = 0
        /\ \A q \in Pods : pc[q] = "idle" /\ result[q] # "panic:regex"
        /\ fl # "done"

\* The line holds a byte (0xF8..0xFF) that no UTF-8 encoding contains.
NeverUtf8(s) == \E i \in 1..Len(s) : s[i] >= 248

\* The step in which pod p's task returns the decoding error.
FailsOnDecoding(p) == result[p] = "none" /\ result'[p] = "Err:utf8"

\* C15: a line that is not UTF-8 is the last one its tailer pulls: the tailer has
\* returned the decoding error (Failed) with nothing written for that line, so no
\* later line of that pod is rendered either; and the step in which it fails
\* changes nothing of any other tailer, of follow_logs or of stdout.
C15_InvalidLineFailsTailer ==
    /\ [](\A p \in Pods : \A k \in 1..Len(pulled[p]) :
            NeverUtf8(pulled[p][k]) =>
                /\ k = Len(pulled[p])
                /\ pc[p] = "Failed"
                /\ result[p] = "Err:utf8"
                /\ \A i \in DOMAIN terminal :
                       terminal[i].pod = p => terminal[i].line < k)
    /\ [][\A p \in Pods : FailsOnDecoding(p) =>
            /\ \A q \in Pods \ {p} :
                   pc'[q] = pc[q] /\ result'[q] = result[q] /\ pulled'[q] = pulled[q]
            /\ fl' = fl
            /\ terminal' = terminal]_vars

\* A tailer has rendered a line and then failed on one that is not UTF-8, while a
\* sibling is connected and waiting for its next line.
C15_Witness ==
    \E p \in Pods : \E q \in Pods \ {p} :
        /\ Len(pulled[p]) = 2
        /\ NeverUtf8(pulled[p][2])
        /\ result[p] = "Err:utf8"
        /\ Writes(p, 1, "text") # {}
        /\ Writes(p, 2, "label") = {}
        /\ pc[q] = "next"

\* C16 as stated: when follow_logs has returned, stdout holds for every tailer
\* that failed a warning that names its pod.
C16_FailuresReported ==
    fl = "done" =>
        \A p \in Pods :
            pc[p] = "Failed" =>
                \E i \in DOMAIN terminal :
                    terminal[i].part = "warning" /\ terminal[i].pod = p

\* C17 as stated: a write to stdout that fails is not the end of the tailer that
\* made it, which goes on to render what comes next: no task has returned the
\* write's error or panicked on it.
C17_WriteFailureNotFatal ==
    \A p \in Pods : result[p] \notin {"Err:write", "panic:write"}

\* The category of a line that is on stdout: in filter-only mode the lines that
\* get there are the highlighted ones; in normal mode an error substring decides
\* first, then the highlight pattern.
RenderedCategory(r) ==
    IF cfg[r.pod].filter THEN "Highlighted"
    ELSE IF ErrorText(r.text) THEN "Error"
    ELSE IF HighlightMatches(r.pod, r.text) THEN "Highlighted"
    ELSE "Plain"

\* The run is a fan-out (follow_logs) run, which starts by printing its selection.
FanOutMode == SelectionPrinted

\* C18 as stated: an Error text is bold red, a Highlighted text is bold yellow, and
\* a Plain text is in the source's color in a fan-out run and without color in a
\* single-pod run.
C18_StyledByCategory ==
    \A i \in DOMAIN terminal :
        LET r == terminal[i]
        IN  IsText(r) =>
                r.style = (CASE RenderedCategory(r) = "Error" -> "Red+Bold"
                             [] RenderedCategory(r) = "Highlighted" -> "Yellow+Bold"
                             [] OTHER -> IF FanOutMode THEN "Color" ELSE "Reset")

\* C18 amended: an Error text is bold red, a Highlighted text is bold yellow, and a
\* Plain text is written right after a color reset, so without color, in a fan-out
\* run and in a single-pod run alike; the source's color is only on the pod label
\* that is written before the text.
C18_PlainAfterReset ==
    \A i \in DOMAIN terminal :
        LET r == terminal[i]
        IN  /\ IsText(r) =>
                r.style = (CASE RenderedCategory(r) = "Error" -> "Red+Bold"
                             [] RenderedCategory(r) = "Highlighted" -> "Yellow+Bold"
                             [] OTHER -> "Reset")
            /\ r.style = "Color" <=> r.part = "label"

\* A fan-out run has a plain line on stdout: its label in the source's color, its
\* text after a reset.
C18_Witness ==
    /\ FanOutMode
    /\ \E i, j \in DOMAIN terminal :
          /\ i < j
          /\ terminal[i].part = "label" /\ terminal[i].style = "Color"
          /\ IsText(terminal[j]) /\ terminal[j].pod = terminal[i].pod
          /\ terminal[j].line = terminal[i].line
          /\ RenderedCategory(terminal[j]) = "Plain"
          /\ terminal[j].style = "Reset"

\* C19 as stated: whenever a tailer has written the line terminator that completes
\* a line, the terminal's color and bold state at that point is the default.
C19_LineEndsReset ==
    \A i \in DOMAIN terminal :
        terminal[i].part = "nl" => TermStyle(SubSeq(terminal, 1, i)) = "Default"

\* C20: follow_logs returns an error only when collect_pods failed (no cluster
\* configuration, or the listing failed), and then before any spawn; once it has
\* the selection and has printed it, it spawns, joins and returns Ok and nothing
\* else, and when every tailer is over it can return, whatever the tailers'
\* outcomes were.
C20_OnlySelectionAborts ==
    /\ [](fl = "error" =>
            /\ listing \in {"noconfig", "failed"}
            /\ spawned = 0
            /\ \A q \in Pods : result[q] = "none")
    /\ []((fl = "join" /\ \A i \in 1..Len(pods) : result[pods[i]] # "none") => ENABLED Join)
    /\ [][(fl \in {"spawn", "join", "done"}) => (fl' \in {"spawn", "join", "done"})]_vars

\* follow_logs has returned Ok after one of its tailers returned an error and
\* another one panicked.
C20_Witness ==
    /\ fl = "done"
    /\ \E p, q \in Pods :
          /\ pc[p] = "Failed" /\ result[p] \in {"Err:connect", "Err:stream", "Err:utf8", "Err:write"}
          /\ pc[q] = "Panicked"

\* The pods that have a tailer: spawned, in whatever state since.
HasTailer(p) == pc[p] # "idle"

\* C21: the tailers are exactly those of the names the loop has gone through, one
\* for each name of the selection once the loop is over; each holds the name of its
\* pod, a palette color, and the run's highlight string and filter flag, none of
\* which changes while the tailer exists; and the next spawn can always be made
\* at once, whatever the tailers spawned before it are doing.
C21_OneTailerPerPod ==
    /\ [](  /\ spawned <= Len(pods)
            /\ \A i, j \in 1..Len(pods) : pods[i] = pods[j] => i = j
            /\ {p \in Pods : HasTailer(p)} = {pods[i] : i \in 1..spawned}
            /\ fl \in {"join", "done"} => spawned = Len(pods)
            /\ \A p \in Pods : HasTailer(p) =>
                   /\ cfg[p].name = PodList[p]
                   /\ \E c \in 1..Len(COLORS) : cfg[p].color = COLORS[c]
                   /\ cfg[p].highlight = (IF highlightOpt.some THEN highlightOpt.val ELSE Empty)
                   /\ cfg[p].filter = filterOpt
            /\ (fl = "spawn" /\ spawned < Len(pods)) => ENABLED Spawn)
    /\ [][\A p \in Pods : HasTailer(p) => cfg'[p] = cfg[p]]_vars

\* Both tailers of a two-pod selection exist and carry different colors, and the
\* second was spawned while the first had not yet connected.
C21_Witness ==
    /\ Len(pods) = 2
    /\ spawned = 2
    /\ pc[pods[1]] = "connecting"
    /\ pc[pods[2]] = "connecting"
    /\ cfg[pods[1]].color # cfg[pods[2]].color

\* The lifecycle state of a tailer: it is Streaming from the moment its stream is
\* open until its task is over, and Failed when its task is over with an error,
\* returned or raised as a panic.
Phase(at) ==
    CASE at = "idle" -> "NotSpawned"
      [] at = "connecting" -> "Connecting"
      [] at \in {"next", "text", "nl"} -> "Streaming"
      [] at = "Ended" -> "Ended"
      [] at \in {"Failed", "Panicked"} -> "Failed"
      [] OTHER -> "Dropped"

\* The lifecycle steps the claim allows.
LifecycleSteps ==
    {<<"NotSpawned", "Connecting">>, <<"Connecting", "Streaming">>, <<"Connecting", "Failed">>,
     <<"Streaming", "Ended">>, <<"Streaming", "Failed">>}

\* C22: a tailer goes from Connecting to Streaming to Ended or Failed and makes no
\* other move; it is Ended exactly if its task returned Ok, which it does only
\* when it finds the stream closed while waiting for a line, and Failed exactly if
\* its task is over with an error; and once Ended or Failed it stays so, pulls
\* nothing more from a stream and writes nothing more.
C22_Lifecycle ==
    /\ [](\A p \in Pods :
            /\ Phase(pc[p]) # "Dropped"
            /\ Phase(pc[p]) = "Ended" <=> result[p] = "Ok"
            /\ Phase(pc[p]) = "Failed" <=> result[p] \notin {"none", "Ok"})
    /\ [][\A p \in Pods :
            /\ Phase(pc'[p]) # Phase(pc[p]) => <<Phase(pc[p]), Phase(pc'[p])>> \in LifecycleSteps
            /\ (result[p] = "none" /\ result'[p] = "Ok") =>
                   pc[p] = "next" /\ terminal' = terminal /\ pulled' = pulled
            /\ Phase(pc[p]) \in {"Ended", "Failed"} =>
                   /\ pc'[p] = pc[p]
                   /\ result'[p] = result[p]
                   /\ pulled'[p] = pulled[p]
                   /\ terminal' # terminal => terminal'[Len(terminal')].pod # p]_vars

\* One tailer has rendered a line and Ended, another one has Failed on its stream's
\* error, and follow_logs has not returned yet.
C22_Witness ==
    /\ fl = "join"
    /\ \E p, q \in Pods :
          /\ pc[p] = "Ended" /\ Writes(p, 1, "nl") # {}
          /\ pc[q] = "Failed" /\ result[q] = "Err:stream"

\* The palette entry (counted from 1) whose unit interval holds the sample x.
EntryOf(x) == CHOOSE k \in 1..Len(COLORS) : 100 * (k - 1) <= x /\ x < 100 * k

\* C23: the palette has 8 colors; every sample of the generator lies in a unit
\* interval of the palette, so the draw of the next spawn cannot fail; each tailer
\* has the palette color of the sample drawn for it and of no other; and tailers
\* with the same color are left to run like any others.
C23_ColorFromPalette ==
    /\ Len(COLORS) = 8
    /\ \A i \in 1..Len(rng) : \E k \in 1..Len(COLORS) : 100 * (k - 1) <= rng[i] /\ rng[i] < 100 * k
    /\ \A i \in 1..spawned : cfg[pods[i]].color = COLORS[EntryOf(rng[i])]
    /\ (fl = "spawn" /\ spawned < Len(pods)) => ENABLED Spawn
    /\ \A p, q \in Pods :
          (p # q /\ HasTailer(p) /\ HasTailer(q) /\ cfg[p].color = cfg[q].color) =>
              /\ pc[p] = "connecting" => ENABLED Connect(p)
              /\ pc[p] = "next" => ENABLED PullEnd(p)
              /\ pc[p] = "text" => ENABLED WriteText(p)
              /\ pc[p] = "nl" => ENABLED WriteNewline(p)

\* Two tailers were given the same color from different samples, and each of them
\* has rendered a line.
C23_Witness ==
    \E p, q \in Pods :
        /\ p # q
        /\ HasTailer(p) /\ HasTailer(q)
        /\ cfg[p].color = cfg[q].color
        /\ rng[1] # rng[2]
        /\ Writes(p, 1, "text") # {}
        /\ Writes(q, 1, "text") # {}

\* C24 as stated: the text of every rendered line, in normal mode and in
\* filter-only mode, comes after a label write of the same tailer for the same
\* line that holds the name of its pod.
C24_LabelBeforeText ==
    \A j \in DOMAIN terminal :
        IsText(terminal[j]) =>
            \E i \in 1..(j - 1) :
                /\ terminal[i].part = "label"
                /\ terminal[i].pod = terminal[j].pod
                /\ terminal[i].line = terminal[j].line
                /\ terminal[i].text = PodList[terminal[j].pod]

\* What the operator typed, without the blanks and the line end around it and
\* without a "+" in front.
Entry(in) ==
    LET NotBlank(b) == b \notin {9, 10, 13, 32}
        typed == SelectSeq(in, NotBlank)
    IN  IF typed # <<>> /\ typed[1] = 43 THEN Tail(typed) ELSE typed

\* The operator typed a number.
NumericEntry(in) == Entry(in) # <<>> /\ \A i \in 1..Len(Entry(in)) : Entry(in)[i] \in 48..57

\* select_pod has read a line.
LineRead == input # <<>>

\* C25: in select_pod, once stream_logs is over, select_pod returns what the tailer
\* returned: an error if the tailer failed, Ok if it ended; a typed number that is
\* not the index of a listed pod ends select_pod with Ok and without any tailer;
\* and an entry that is not a number ends it with an error and without any tailer.
C25_SelectPodOutcomes ==
    /\ (pods # <<>> /\ fl # "stream") =>
          /\ result[pods[1]] \in {"Err:connect", "Err:stream", "Err:utf8", "Err:write"} => fl = "error"
          /\ result[pods[1]] = "Ok" => fl = "done"
    /\ (pods # <<>> /\ fl = "stream" /\ result[pods[1]] # "none") => ENABLED SelectReturn
    /\ (LineRead /\ NumericEntry(input) /\ DigitsValue(Entry(input)) >= Len(PodList)) =>
          /\ fl = "done"
          /\ pods = <<>>
          /\ \A q \in Pods : pc[q] = "idle" /\ pulled[q] = <<>>
    /\ (LineRead /\ ~NumericEntry(input)) =>
          /\ fl = "error"
          /\ pods = <<>>
          /\ \A q \in Pods : pc[q] = "idle" /\ pulled[q] = <<>>

\* select_pod has returned the error of its tailer, whose stream failed after a
\* line of it was rendered.
C25_Witness ==
    /\ LineRead
    /\ fl = "error"
    /\ pods # <<>>
    /\ result[pods[1]] = "Err:stream"
    /\ Writes(pods[1], 1, "nl") # {}

\* The larger of two integers.
Max(a, b) == IF a >= b THEN a ELSE b

\* The step handles a Down/j or an Up/k key in the given view.
ArrowKeyIn(view) ==
    /\ keys' # keys
    /\ event' \in {"Down", "Up"}
    /\ active_action_item.view = view

\* The selected row is a row of the table (row 0 when the table is empty).
SelectedValid(sel) == sel >= 0 /\ sel <= Max(0, Len(pod_list) - 1)

\* C26 as stated: in the Home view a Down/j or Up/k key leaves the selected row
\* within 0..len-1 (row 0 for an empty list), for every size of the pod list, and
\* computing len-1 never underflows.
C26_SelectedInRange ==
    [][(ArrowKeyIn("Home") /\ SelectedValid(selected)) =>
          (ui' # "overflow" /\ SelectedValid(selected'))]_vars

\* C26, the rows of a list that is not empty: Down on the last row selects row 0,
\* Up on row 0 selects the last row, and every other Down or Up moves by one row.
C26_WrapsWhenNotEmpty ==
    [][(ArrowKeyIn("Home") /\ Len(pod_list) > 0 /\ SelectedValid(selected)) =>
          /\ ui' = "top"
          /\ SelectedValid(selected')
          /\ event' = "Down" =>
                selected' = (IF selected = Len(pod_list) - 1 THEN 0 ELSE selected + 1)
          /\ event' = "Up" =>
                selected' = (IF selected = 0 THEN Len(pod_list) - 1 ELSE selected - 1)]_vars

\* The scroll offset is within the text (0 for an empty text).
ScrollValid(off) == off >= 0 /\ off <= Max(0, describe_pod_text - 1)

\* C27 as stated: in the Describe view a Down/j or Up/k key leaves the scroll
\* offset within 0..max(0, len-1) of the describe text, whatever its length, and
\* no u16 operation on the way overflows.
C27_ScrollInRange ==
    [][(ArrowKeyIn("Describe") /\ ScrollValid(scroll_offset)) =>
          (ui' # "overflow" /\ ScrollValid(scroll_offset'))]_vars

\* The step handles the key k.
Handles(k) == keys' # keys /\ event' = k

\* C28: the view never leaves Describe; it goes from Home to Describe only when
\* 'd' is handled with a selected row that is a pod of pod_list, and then to that
\* row's pod; handling 'q' in either view ends the loop, with Ok only after raw
\* mode was switched off, and load_ui returns Ok on no other way; and pod_list is
\* what was listed at the start, whatever happens in the namespace since.
C28_ViewsAndQuit ==
    /\ [](ui = "done" => (event = "q" /\ ~raw_mode))
    /\ [][/\ active_action_item.view = "Describe" => active_action_item'.view = "Describe"
          /\ (active_action_item.view = "Home" /\ active_action_item'.view = "Describe") =>
                /\ Handles("d")
                /\ InList(selected, pod_list)
                /\ active_action_item'.idx = selected
          /\ Handles("q") =>
                /\ ui' \in {"done", "error"}
                /\ active_action_item' = active_action_item
          /\ ui # "start" => pod_list' = pod_list]_vars

\* load_ui has returned Ok from the Describe view, after the namespace had come to
\* hold another number of pods than pod_list.
C28_Witness ==
    /\ ui = "done"
    /\ active_action_item.view = "Describe"
    /\ cluster # Len(pod_list)
    /\ ~raw_mode

====
